---- MODULE Spec2Model ----
(***************************************************************************)
(* Model of src/index.js: run(), the release action.  One run is a chain   *)
(* of awaited calls to the hosting API (octokit), the file system and an   *)
(* HTTPS webhook; every awaited call is one action, which either returns   *)
(* a response of the modelled world or throws.  The repository (its tag    *)
(* list and its releases) outlives a run, so that a second run of the same *)
(* job can be modelled.                                                    *)
(*                                                                         *)
(* Conventions: an absent / null / undefined JavaScript value is the falsy *)
(* value of its type: 0 for a date (dates are positive timestamps), "" for *)
(* a string, <<>> for a character sequence, present |-> FALSE for a missing *)
(* commit object.  Strings the code takes apart (the files input, commit   *)
(* messages, commit shas, paths) are sequences of one-character strings;   *)
(* a template literal is the sequence of its pieces.                       *)
(***************************************************************************)
EXTENDS Integers, Sequences, FiniteSets, TLC

\* ---------------------------------------------------------------- bounds
\* longest tag list listTags returns at the first run
MaxTags == 3
\* longest list pulls.list returns
MaxPRs == 2
\* longest list compareCommits / listCommits returns
MaxCommits == 2
\* number of times the job is run against the same repository
MaxRuns == 2

\* ------------------------------------------------------- sequence helpers
SeqMap(f(_), s) == [k \in 1..Len(s) |-> f(s[k])]

\* the sequences of pairwise distinct elements of S of length at most n
DistinctSeqs(S, n) ==
  UNION {{s \in [1..k -> S] : \A a, b \in 1..k : a # b => s[a] # s[b]} : k \in 0..n}

\* index of the first element of s satisfying P, or Len(s) + 1
RECURSIVE FirstIndex(_, _, _)
FirstIndex(P(_), s, k) ==
  IF k > Len(s) THEN k ELSE IF P(s[k]) THEN k ELSE FirstIndex(P, s, k + 1)

\* ------------------------------------------------------------- the world
\* commit objects as the API embeds them in a tag
Commit(sha, committer, author) ==
  [present |-> TRUE, sha |-> sha, committer |-> committer, author |-> author]
NoCommit == [present |-> FALSE, sha |-> "", committer |-> 0, author |-> 0]
Tag(name, sha, commit) == [name |-> name, sha |-> sha, commit |-> commit]

\* The tags listTags may return: dated by committer, dated by author only
\* (same date as v2), with a commit but no date, without a commit object,
\* and dated with a commit that carries no sha.
TagUniverse ==
  { Tag("v1", "", Commit("c1", 1, 1)),
    Tag("v2", "", Commit("c2", 2, 2)),
    Tag("v3", "", Commit("c3", 0, 2)),
    Tag("v4", "", Commit("c4", 0, 0)),
    Tag("v5", "c5", NoCommit),
    Tag("v6", "", Commit("", 3, 3)) }

\* committer date of a commit of the repository, as repos.getCommit and
\* git.getCommit report it
CommitDate(sha) ==
  CASE sha = "c0" -> 1
    [] sha = "c1" -> 1
    [] sha = "c2" -> 2
    [] sha = "c3" -> 2
    [] sha = "c4" -> 3
    [] sha = "c5" -> 3
    [] OTHER -> 1

\* target of an annotated tag object, as git.getTag reports it
TagObjectTarget(sha) == IF sha = "c2" THEN "c0" ELSE sha

\* closed pull requests: #1 closed without merge, #2 merged at 2, #3 at 3
PR(number, title, login, merged_at) ==
  [number |-> number, title |-> title, user |-> [login |-> login],
   html_url |-> <<"https://h/pull/", ToString(number)>>, merged_at |-> merged_at]
PullUniverse ==
  { PR(1, "Drop idea", "ann", 0), PR(2, "Fix bug", "bob", 2), PR(3, "Add feature", "cy", 3) }
PullLists == DistinctSeqs(PullUniverse, MaxPRs)

\* commits: a sha longer than 7 characters with a two-line message, and a
\* short sha with a one-line message
CommitUniverse ==
  { [sha |-> <<"a", "b", "c", "d", "e", "f", "0", "1", "2">>,
     commit |-> [message |-> <<"f", "i", "x", "\n", "\n", "b", "o", "d", "y">>]],
    [sha |-> <<"9", "9">>, commit |-> [message |-> <<"a", "d", "d">>]] }
CommitLists == DistinctSeqs(CommitUniverse, MaxCommits)

\* the file system: regular files, and a directory (exists, cannot be read)
FsFiles == { <<"a">>, <<"x", "/", "a">> }
FsDirs == { <<"d">> }

\* the inputs of the job
Versions == {"v1", "v4", "v9"}
Names == {"proj"}
\* "", a URL, and a string new URL() rejects
WebhookUrls == {"", "https://teams.example/hook?k=1", "not a url"}
\* "" and "a, m,\r\nx/a\nd"
FilesInputs ==
  { <<>>,
    <<"a", ",", " ", "m", ",", "\r", "\n", "x", "/", "a", "\n", "d">> }
\* context.sha, the commit the job runs on
contextSha == "c9"

\* ------------------------------------------------- pure parts of run()
\* getTagDate: the committer date, else the author date, else null
getTagDate(tag) ==
  IF tag.commit.present /\ tag.commit.committer # 0 THEN tag.commit.committer
  ELSE IF tag.commit.present /\ tag.commit.author # 0 THEN tag.commit.author
  ELSE 0

\* (tag) => ({ ...tag, _tagDate: getTagDate(tag) })
withTagDate(tag) ==
  [name |-> tag.name, sha |-> tag.sha, commit |-> tag.commit, tagDate |-> getTagDate(tag)]

\* mutant: the comparator sorts the oldest tag first
compareTagsAsc(a, b) == a.tagDate - b.tagDate

\* the comparator (a, b) => b._tagDate - a._tagDate
compareTags(a, b) == b.tagDate - a.tagDate

\* Array.prototype.sort with compareTags: a stable sort, so an element goes
\* before the first one the comparator puts strictly after it
insertTag(sorted, x) ==
  LET after(y) == compareTags(y, x) > 0
      k == FirstIndex(after, sorted, 1)
  IN  SubSeq(sorted, 1, k - 1) \o <<x>> \o SubSeq(sorted, k, Len(sorted))

RECURSIVE sortFrom(_, _)
sortFrom(sorted, rest) ==
  IF rest = <<>> THEN sorted ELSE sortFrom(insertTag(sorted, Head(rest)), Tail(rest))

\* mutant: the filter on the date is lost
isDatedAlways(tag) == TRUE

\* tagsWithCommits.map(...).filter((tag) => tag._tagDate).sort(...)
isDated(tag) == tag.tagDate # 0
sortTags(tagsWithCommits) ==
  sortFrom(<<>>, SelectSeq(SeqMap(withTagDate, tagsWithCommits), isDated))

\* mutant: the version is looked for among the dated tags only
tagExistsDated(tags, version) ==
  \E k \in 1..Len(tags) : tags[k].name = version /\ getTagDate(tags[k]) # 0

\* tags.some((tag) => tag.name === version)
tagExists(tags, version) == \E k \in 1..Len(tags) : tags[k].name = version

\* commit_sha of enrichTagWithCommit: tag.sha || tag.name
enrichSha(tag) == IF tag.sha # "" THEN tag.sha ELSE tag.name

\* mutant: a pull request merged at the date of the tag counts too
isMergedSinceOrAt(pr, date) == pr.merged_at # 0 /\ pr.merged_at >= date

\* pulls.filter((pr) => pr.merged_at && new Date(pr.merged_at) > secondToLastTagDate)
isMergedSince(pr, date) == pr.merged_at # 0 /\ pr.merged_at > date
mergedPRs(pulls, date) == LET keep(pr) == isMergedSince(pr, date) IN SelectSeq(pulls, keep)

\* String.prototype.split on a set of separator characters
RECURSIVE split(_, _)
split(s, seps) ==
  LET isSep(c) == c \in seps
      k == FirstIndex(isSep, s, 1)
  IN  IF k > Len(s) THEN <<s>>
      ELSE <<SubSeq(s, 1, k - 1)>> \o split(SubSeq(s, k + 1, Len(s)), seps)

\* String.prototype.trim removes white space and line terminators: space,
\* tab, line feed, carriage return, form feed, vertical tab, no-break space,
\* the ogham space mark U+1680 and the byte order mark.  It removes as well
\* U+2000 to U+200A, U+2028, U+2029, U+202F, U+205F and U+3000, which
\* cannot be written in a string here.
WhiteSpace == {" ", "\t", "\n", "\r", "\f", "", " ", " ", "﻿"}
RECURSIVE trimLeft(_)
trimLeft(s) == IF s # <<>> /\ Head(s) \in WhiteSpace THEN trimLeft(Tail(s)) ELSE s
RECURSIVE trimRight(_)
trimRight(s) ==
  IF s # <<>> /\ s[Len(s)] \in WhiteSpace THEN trimRight(SubSeq(s, 1, Len(s) - 1)) ELSE s
trim(s) == trimRight(trimLeft(s))

\* String.prototype.substring(0, n)
substring(s, n) == SubSeq(s, 1, IF Len(s) < n THEN Len(s) ELSE n)

\* join("\n") of rendered lines
RECURSIVE join(_)
join(lines) ==
  IF lines = <<>> THEN <<>>
  ELSE IF Len(lines) = 1 THEN lines[1]
  ELSE lines[1] \o <<"\n">> \o join(Tail(lines))

\* `- ${pr.title} by @${pr.user.login} in [#${pr.number}](${pr.html_url})`
prLine(pr) ==
  <<"- ", pr.title, " by @", pr.user.login, " in [#", ToString(pr.number), "](">>
    \o pr.html_url \o <<")">>

\* `- ${commit.commit.message.split("\n")[0]} (${commit.sha.substring(0, 7)})`
commitLine(commit) ==
  <<"- ">> \o split(commit.commit.message, {"\n"})[1] \o <<" (">>
    \o substring(commit.sha, 7) \o <<")">>

\* mutant: the lines of the pull requests come out last to first
prChangeLogReversed(prs) == join([k \in 1..Len(prs) |-> prLine(prs[Len(prs) + 1 - k])])

\* mergedPRs.map(...).join("\n")
prChangeLog(prs) == join(SeqMap(prLine, prs))
commitChangeLog(commits) == join(SeqMap(commitLine, commits))

\* filesInput.split(/[,\n]/).map((f) => f.trim()).filter(Boolean)
nonEmpty(f) == f # <<>>
parseFiles(filesInput) == SelectSeq(SeqMap(trim, split(filesInput, {",", "\n"})), nonEmpty)

\* existsSync / readFileSync
existsSync(path) == path \in FsFiles \cup FsDirs
readable(path) == path \in FsFiles

\* path.basename: what follows the last "/", trailing "/" set aside
RECURSIVE stripSlashes(_)
stripSlashes(p) ==
  IF p # <<>> /\ p[Len(p)] = "/" THEN stripSlashes(SubSeq(p, 1, Len(p) - 1)) ELSE p
RECURSIVE afterLastSlash(_)
afterLastSlash(p) ==
  LET isSlash(c) == c = "/"
      k == FirstIndex(isSlash, p, 1)
  IN  IF k > Len(p) THEN p ELSE afterLastSlash(SubSeq(p, k + 1, Len(p)))
basename(p) == afterLastSlash(stripSlashes(p))

\* new URL(webhookUrl)
parseURL(u) ==
  IF u = "https://teams.example/hook?k=1"
  THEN [ok |-> TRUE, hostname |-> "teams.example", pathname |-> "/hook", search |-> "?k=1"]
  ELSE [ok |-> FALSE, hostname |-> "", pathname |-> "", search |-> ""]

\* mutant: the card names the project but not the version
teamsPayloadNoVersion(name, version, changeLog) ==
  [type |-> "MessageCard",
   context |-> "http://schema.org/extensions",
   summary |-> <<"New release: ", name>>,
   themeColor |-> "0076D7",
   title |-> <<"New release: ", name>>,
   text |-> IF changeLog # <<>> THEN changeLog ELSE <<"No changelog available.">>]

\* the MessageCard posted to the webhook
teamsPayload(name, version, changeLog) ==
  [type |-> "MessageCard",
   context |-> "http://schema.org/extensions",
   summary |-> <<"New release: ", name, " ", version>>,
   themeColor |-> "0076D7",
   title |-> <<"New release: ", name, " ", version>>,
   text |-> IF changeLog # <<>> THEN changeLog ELSE <<"No changelog available.">>]

\* mutant: the release is created as a draft
releaseRequestDraft(version, changeLog) ==
  [tag_name |-> version, name |-> <<"Release ", version>>, body |-> changeLog,
   draft |-> TRUE, prerelease |-> FALSE]

\* the arguments of createRelease
releaseRequest(version, changeLog) ==
  [tag_name |-> version, name |-> <<"Release ", version>>, body |-> changeLog,
   draft |-> FALSE, prerelease |-> FALSE]

\* the arguments of createRef
refRequest(version, sha) == [ref |-> <<"refs/tags/", version>>, sha |-> sha]

\* error.message of a call that threw
errorMessage(op) == <<"error in ", op>>

\* ------------------------------------------------------------------ state
VARIABLES
  version,              \* getInput("version")
  name,                 \* getInput("name")
  webhookUrl,           \* getInput("Team_webhook")
  filesInput,           \* getInput("files")
  requireDefined,       \* the build: whether require is defined where run()
                        \* is evaluated (a CommonJS bundle) or not (the file
                        \* loaded as the ES module it is written as)
  repoTags,             \* the repository: the tag list listTags returns
  repoReleases,         \* the repository: the releases created so far
  runNo,                \* which run of the job this is
  pc,                   \* the statement run() is at
  tags,                 \* const { data: tags }
  tagIdx,               \* position of the loop over tags
  tagsWithCommits,
  sortedTags,
  secondToLastTagSha,
  secondToLastTagDate,
  pulls,                \* const { data: pulls }, until the changelog is used
  commits,              \* const { data: commits }, until the changelog is used
  changeLog,
  release,              \* release.id of this run's release, 0 before
  files,                \* the parsed file paths still to attach
  calls                 \* this run's effects in order: API calls, the webhook
                        \* POST, setFailed and warning

inputs == <<version, name, webhookUrl, filesInput, requireDefined>>
repo == <<repoTags, repoReleases>>
locals ==
  <<tags, tagIdx, tagsWithCommits, sortedTags, secondToLastTagSha, secondToLastTagDate,
    pulls, commits, changeLog, release, files>>
vars == <<inputs, repo, runNo, pc, locals, calls>>

\* an effect: ok tells whether the call returned (TRUE) or threw (FALSE)
Call(op, args, ok) == [op |-> op, args |-> args, ok |-> ok, settled |-> TRUE]

\* a call that was made and whose promise never settles: it neither returns
\* nor throws
Unsettled(op, args) == [op |-> op, args |-> args, ok |-> FALSE, settled |-> FALSE]
setFailed(message) == Call("setFailed", message, TRUE)
warning(message) == Call("warning", message, TRUE)

\* the run's local variables before the first statement
InitLocals ==
  /\ tags = <<>>
  /\ tagIdx = 1
  /\ tagsWithCommits = <<>>
  /\ sortedTags = <<>>
  /\ secondToLastTagSha = ""
  /\ secondToLastTagDate = 0
  /\ pulls = <<>>
  /\ commits = <<>>
  /\ changeLog = <<>>
  /\ release = 0
  /\ files = <<>>
  /\ calls = <<>>

Init ==
  /\ version \in Versions
  /\ name \in Names
  /\ webhookUrl \in WebhookUrls
  /\ filesInput \in FilesInputs
  /\ requireDefined \in BOOLEAN
  /\ repoTags \in DistinctSeqs(TagUniverse, MaxTags)
  /\ repoReleases = {}
  /\ runNo = 1
  /\ pc = "listTags"
  /\ InitLocals

\* ------------------------------------------------------ control of a run
\* a call that returns
Returns(op, args) == calls' = Append(calls, Call(op, args, TRUE))

\* mutant: the catch of run() ends the run without reporting
ThrowsSilent(op, args) ==
  /\ calls' = Append(calls, Call(op, args, FALSE))
  /\ pc' = "failed"

\* a call that throws into the catch of run() (lines 257-260):
\* setFailed(error.message), and the run is over
Throws(op, args) ==
  /\ calls' = calls \o <<Call(op, args, FALSE), setFailed(errorMessage(op))>>
  /\ pc' = "failed"

\* after the tag is there: the second-to-last tag if there is one (line 89)
afterTag(sorted) == IF Len(sorted) >= 2 THEN "getTag" ELSE "checkTags"

\* after the attachments: the notification if a webhook is given (line 227)
afterAttach == IF webhookUrl # "" THEN "notify" ELSE "done"

\* after createRelease: the attachments if files are given (lines 198, 204)
afterRelease(fs) == IF fs # <<>> THEN "attach" ELSE afterAttach

\* ----------------------------------------------------------------- steps
\* octokit.rest.repos.listTags (line 18)
ListTags ==
  /\ pc = "listTags"
  /\ \/ /\ Returns("listTags", <<>>)
        /\ tags' = repoTags
        /\ pc' = "enrich"
     \/ /\ Throws("listTags", <<>>)
        /\ UNCHANGED tags
  /\ UNCHANGED <<inputs, repo, runNo, tagIdx, tagsWithCommits, sortedTags,
                 secondToLastTagSha, secondToLastTagDate, pulls, commits, changeLog,
                 release, files>>

\* one turn of the loop over tags (lines 56-65); enrichTagWithCommit calls
\* git.getCommit for a tag without a commit and drops the tag if that throws
EnrichTag ==
  /\ pc = "enrich"
  /\ tagIdx <= Len(tags)
  /\ LET tag == tags[tagIdx]
         commitSha == enrichSha(tag)
         commit == Commit(commitSha, CommitDate(commitSha), CommitDate(commitSha))
     IN  \/ /\ tag.commit.present
            /\ tagsWithCommits' = Append(tagsWithCommits, tag)
            /\ UNCHANGED calls
         \/ /\ ~tag.commit.present
            /\ Returns("git.getCommit", [commit_sha |-> commitSha])
            /\ tagsWithCommits' = Append(tagsWithCommits, [tag EXCEPT !.commit = commit])
         \/ /\ ~tag.commit.present
            /\ calls' = Append(calls, Call("git.getCommit", [commit_sha |-> commitSha], FALSE))
            /\ UNCHANGED tagsWithCommits
  /\ tagIdx' = tagIdx + 1
  /\ UNCHANGED <<inputs, repo, runNo, pc, tags, sortedTags, secondToLastTagSha,
                 secondToLastTagDate, pulls, commits, changeLog, release, files>>

\* the tag as listTags shows it once createRef has made it
createdTag(v, sha) == Tag(v, "", Commit(sha, 0, 0))

\* mutant: the tag is created only once the sorted tags have passed the
\* checks on them
CreateTagIfValid ==
  /\ pc = "enrich"
  /\ tagIdx > Len(tags)
  /\ sortedTags' = sortTags(tagsWithCommits)
  /\ LET valid == Len(sortedTags') # 0 /\ sortedTags'[1].commit.sha # ""
     IN  \/ /\ tagExists(tags, version) \/ ~valid
            /\ pc' = afterTag(sortedTags')
            /\ UNCHANGED <<calls, repoTags>>
         \/ /\ ~tagExists(tags, version) /\ valid
            /\ Returns("createRef", refRequest(version, contextSha))
            /\ repoTags' = Append(repoTags, createdTag(version, contextSha))
            /\ pc' = afterTag(sortedTags')
         \/ /\ ~tagExists(tags, version) /\ valid
            /\ Throws("createRef", refRequest(version, contextSha))
            /\ UNCHANGED repoTags
  /\ UNCHANGED <<inputs, repoReleases, runNo, tags, tagIdx, tagsWithCommits,
                 secondToLastTagSha, secondToLastTagDate, pulls, commits, changeLog,
                 release, files>>

\* after the loop: sort the dated tags (lines 68-71), then createRef unless
\* the version is among the tags (lines 74-85)
CreateTagIfMissing ==
  /\ pc = "enrich"
  /\ tagIdx > Len(tags)
  /\ sortedTags' = sortTags(tagsWithCommits)
  /\ \/ /\ tagExists(tags, version)
        /\ pc' = afterTag(sortedTags')
        /\ UNCHANGED <<calls, repoTags>>
     \/ /\ ~tagExists(tags, version)
        /\ Returns("createRef", refRequest(version, contextSha))
        /\ repoTags' = Append(repoTags, createdTag(version, contextSha))
        /\ pc' = afterTag(sortedTags')
     \/ /\ ~tagExists(tags, version)
        /\ Throws("createRef", refRequest(version, contextSha))
        /\ UNCHANGED repoTags
  /\ UNCHANGED <<inputs, repoReleases, runNo, tags, tagIdx, tagsWithCommits,
                 secondToLastTagSha, secondToLastTagDate, pulls, commits, changeLog,
                 release, files>>

\* git.getTag on the second-to-last tag (lines 91-104): the target of the
\* tag object, or the tag's commit sha when getTag throws
GetTag ==
  /\ pc = "getTag"
  /\ LET secondToLastTag == sortedTags[2]
         args == [tag_sha |-> secondToLastTag.commit.sha]
     IN  \/ /\ Returns("git.getTag", args)
            /\ secondToLastTagSha' = TagObjectTarget(secondToLastTag.commit.sha)
         \/ /\ calls' = Append(calls, Call("git.getTag", args, FALSE))
            /\ secondToLastTagSha' = secondToLastTag.commit.sha
  /\ pc' = "getCommit"
  /\ UNCHANGED <<inputs, repo, runNo, tags, tagIdx, tagsWithCommits, sortedTags,
                 secondToLastTagDate, pulls, commits, changeLog, release, files>>

\* repos.getCommit on the resolved sha (lines 106-112)
GetCommit ==
  /\ pc = "getCommit"
  /\ \/ /\ Returns("repos.getCommit", [ref |-> secondToLastTagSha])
        /\ secondToLastTagDate' = CommitDate(secondToLastTagSha)
        /\ pc' = "checkTags"
     \/ /\ Throws("repos.getCommit", [ref |-> secondToLastTagSha])
        /\ UNCHANGED secondToLastTagDate
  /\ UNCHANGED <<inputs, repo, runNo, tags, tagIdx, tagsWithCommits, sortedTags,
                 secondToLastTagSha, pulls, commits, changeLog, release, files>>

\* sortedTags[0].commit && sortedTags[0].commit.sha (line 120)
lastTagSha(sorted) == IF sorted[1].commit.present THEN sorted[1].commit.sha ELSE ""

\* the checks before the changelog (lines 116-125)
CheckTags ==
  /\ pc = "checkTags"
  /\ \/ /\ Len(sortedTags) = 0
        /\ calls' = Append(calls, setFailed(<<"No valid tags with commit information found.">>))
        /\ pc' = "failed"
     \/ /\ Len(sortedTags) # 0
        /\ lastTagSha(sortedTags) = ""
        /\ calls' = Append(calls, setFailed(<<"Latest tag does not have a commit SHA.">>))
        /\ pc' = "failed"
     \/ /\ Len(sortedTags) # 0
        /\ lastTagSha(sortedTags) # ""
        /\ pc' = IF secondToLastTagDate # 0 THEN "pulls" ELSE "listCommits"
        /\ UNCHANGED calls
  /\ UNCHANGED <<inputs, repo, runNo, locals>>

\* the arguments of pulls.list
pullsRequest == [state |-> "closed", sort |-> "updated", direction |-> "desc", per_page |-> 100]

\* pulls.list and the changelog of the merged pull requests (lines 127-146)
ListPulls ==
  /\ pc = "pulls"
  /\ \/ /\ Returns("pulls.list", pullsRequest)
        /\ \E data \in PullLists :
             /\ pulls' = data
             /\ IF Len(mergedPRs(data, secondToLastTagDate)) > 0
                THEN /\ changeLog' = prChangeLog(mergedPRs(data, secondToLastTagDate))
                     /\ pc' = "createRelease"
                ELSE /\ pc' = "compareCommits"
                     /\ UNCHANGED changeLog
     \/ /\ Throws("pulls.list", pullsRequest)
        /\ UNCHANGED <<pulls, changeLog>>
  /\ UNCHANGED <<inputs, repo, runNo, tags, tagIdx, tagsWithCommits, sortedTags,
                 secondToLastTagSha, secondToLastTagDate, commits, release, files>>

\* mutant: the commits are compared up to the commit the job runs on
compareRequestToContext(base, head) == [base |-> base, head |-> contextSha]

\* the arguments of compareCommits
compareRequest(base, head) == [base |-> base, head |-> head]

\* no merged pull request: compareCommits between the two tags (lines 149-165)
CompareCommits ==
  /\ pc = "compareCommits"
  /\ LET args == compareRequest(secondToLastTagSha, lastTagSha(sortedTags))
     IN  \/ /\ Returns("compareCommits", args)
            /\ \E data \in CommitLists :
                 /\ commits' = data
                 /\ changeLog' = commitChangeLog(data)
            /\ pc' = "createRelease"
         \/ /\ Throws("compareCommits", args)
            /\ UNCHANGED <<commits, changeLog>>
  /\ UNCHANGED <<inputs, repo, runNo, tags, tagIdx, tagsWithCommits, sortedTags,
                 secondToLastTagSha, secondToLastTagDate, pulls, release, files>>

\* mutant: the commits are listed from the commit the job runs on
listCommitsRequestHead(sorted) == [sha |-> contextSha]

\* the arguments of listCommits
listCommitsRequest(sorted) == [sha |-> lastTagSha(sorted)]

\* a single dated tag: listCommits up to that tag (lines 169-183)
ListCommits ==
  /\ pc = "listCommits"
  /\ LET args == listCommitsRequest(sortedTags)
     IN  \/ /\ Returns("listCommits", args)
            /\ \E data \in CommitLists :
                 /\ commits' = data
                 /\ changeLog' = commitChangeLog(data)
            /\ pc' = "createRelease"
         \/ /\ Throws("listCommits", args)
            /\ UNCHANGED <<commits, changeLog>>
  /\ UNCHANGED <<inputs, repo, runNo, tags, tagIdx, tagsWithCommits, sortedTags,
                 secondToLastTagSha, secondToLastTagDate, pulls, release, files>>

\* the id the hosting API gives the next release
nextReleaseId == Cardinality(repoReleases) + 1

\* createRelease (lines 187-195), then the parsing of the files input
\* (lines 198-203); pulls and commits are out of scope by now
CreateRelease ==
  /\ pc = "createRelease"
  /\ LET args == releaseRequest(version, changeLog)
         fs == IF filesInput # <<>> THEN parseFiles(filesInput) ELSE <<>>
     IN  \/ /\ Returns("createRelease", args)
            /\ release' = nextReleaseId
            /\ repoReleases' = repoReleases \cup {[id |-> nextReleaseId, tag_name |-> args.tag_name]}
            /\ files' = fs
            /\ pc' = afterRelease(fs)
         \/ /\ Throws("createRelease", args)
            /\ UNCHANGED <<release, repoReleases, files>>
  /\ pulls' = <<>>
  /\ commits' = <<>>
  /\ UNCHANGED <<inputs, repoTags, runNo, tags, tagIdx, tagsWithCommits, sortedTags,
                 secondToLastTagSha, secondToLastTagDate, changeLog>>

\* the arguments of uploadReleaseAsset, where require is defined
uploadRequest(releaseId, filePath) ==
  [release_id |-> releaseId, name |-> basename(filePath), data |-> filePath]

\* the loop over files goes on to the next path
nextFile ==
  /\ files' = Tail(files)
  /\ pc' = IF Tail(files) = <<>> THEN afterAttach ELSE "attach"

\* the catch inside the loop (lines 219-222): a warning, and the loop goes on
catchAttach(effects, filePath) ==
  /\ calls' = calls \o effects \o <<warning(<<"Could not attach ", filePath, " to release">>)>>
  /\ nextFile

\* one turn of the loop over files (lines 204-223).  The arguments of the
\* upload are evaluated before the call: where require is not defined,
\* require("path") (line 215) throws into the catch of the loop and the
\* call is never made.
AttachFile ==
  /\ pc = "attach"
  /\ files # <<>>
  /\ LET filePath == Head(files)
         args == uploadRequest(release, filePath)
     IN  \/ /\ ~existsSync(filePath)
            /\ calls' = Append(calls, warning(<<filePath, " not found, skipping attachment">>))
            /\ nextFile
         \/ /\ existsSync(filePath)
            /\ ~readable(filePath)
            /\ catchAttach(<<>>, filePath)
         \/ /\ existsSync(filePath)
            /\ readable(filePath)
            /\ ~requireDefined
            /\ catchAttach(<<>>, filePath)
         \/ /\ existsSync(filePath)
            /\ readable(filePath)
            /\ requireDefined
            /\ Returns("uploadReleaseAsset", args)
            /\ nextFile
         \/ /\ existsSync(filePath)
            /\ readable(filePath)
            /\ requireDefined
            /\ catchAttach(<<Call("uploadReleaseAsset", args, FALSE)>>, filePath)
  /\ UNCHANGED <<inputs, repo, runNo, tags, tagIdx, tagsWithCommits, sortedTags,
                 secondToLastTagSha, secondToLastTagDate, pulls, commits, changeLog, release>>

\* the options and body of the https request
postRequest(url, payload) ==
  [hostname |-> url.hostname, path |-> <<url.pathname, url.search>>, method |-> "POST",
   body |-> payload]

\* the Teams notification (lines 227-256).  The promise of lines 246-254
\* resolves when the response ends and rejects when the request emits
\* "error"; when the response starts and is cut, or never ends, neither
\* happens: run() stays at the await, the catch is not entered, and the
\* process ends with nothing reported.
Notify ==
  /\ pc = "notify"
  /\ LET url == parseURL(webhookUrl)
         args == postRequest(url, teamsPayload(name, version, changeLog))
     IN  \/ /\ ~url.ok
            /\ calls' = Append(calls, setFailed(errorMessage("new URL")))
            /\ pc' = "failed"
         \/ /\ url.ok
            /\ Returns("POST", args)
            /\ pc' = "done"
         \/ /\ url.ok
            /\ Throws("POST", args)
         \/ /\ url.ok
            /\ calls' = Append(calls, Unsettled("POST", args))
            /\ pc' = "unsettled"
  /\ UNCHANGED <<inputs, repo, runNo, locals>>

\* the job is run again, with the same inputs, on the repository as the
\* earlier run left it
Rerun ==
  /\ pc \in {"done", "failed", "unsettled"}
  /\ runNo < MaxRuns
  /\ runNo' = runNo + 1
  /\ pc' = "listTags"
  /\ tags' = <<>>
  /\ tagIdx' = 1
  /\ tagsWithCommits' = <<>>
  /\ sortedTags' = <<>>
  /\ secondToLastTagSha' = ""
  /\ secondToLastTagDate' = 0
  /\ pulls' = <<>>
  /\ commits' = <<>>
  /\ changeLog' = <<>>
  /\ release' = 0
  /\ files' = <<>>
  /\ calls' = <<>>
  /\ UNCHANGED <<inputs, repo>>

Next ==
  \/ ListTags
  \/ EnrichTag
  \/ CreateTagIfMissing
  \/ GetTag
  \/ GetCommit
  \/ CheckTags
  \/ ListPulls
  \/ CompareCommits
  \/ ListCommits
  \/ CreateRelease
  \/ AttachFile
  \/ Notify

\* one run of the job
Spec == Init /\ [][Next]_vars

\* the job run up to MaxRuns times on the same repository, for a job that
\* attaches files and notifies, on a repository of fewer than MaxTags tags
InitRerun ==
  /\ Init
  /\ filesInput # <<>>
  /\ webhookUrl # ""
  /\ Len(repoTags) < MaxTags

NextRerun == Next \/ Rerun

SpecRerun == InitRerun /\ [][NextRerun]_vars

\* ------------------------------------------------------ reading the log
CallsOf(op) == SelectSeq(calls, LAMBDA c : c.op = op)
Count(op) == Len(CallsOf(op))
Returned(op) == \E k \in 1..Len(calls) : calls[k].op = op /\ calls[k].ok

\* the loop over tags is over and the tags are sorted
TagsSorted == pc \notin {"listTags", "enrich"}

\* the tags of tagsWithCommits that carry a date
DatedIdx ==
  {k \in 1..Len(tagsWithCommits) :
     tagsWithCommits[k].commit.committer # 0 \/ tagsWithCommits[k].commit.author # 0}

\* ----------------------------------------------------------------- claims
\* C1: once listTags has returned its list, createRef is never called when
\* a tag of the list is named exactly as the version; otherwise, past the
\* tag step, it has been called exactly once, with ref refs/tags/<version>
\* and sha context.sha.
C1_TagCreatedIffMissing ==
  LET named == \E k \in 1..Len(tags) : tags[k].name = version
  IN  /\ Count("createRef") <= 1
      /\ (Returned("listTags") /\ named) => Count("createRef") = 0
      /\ (Returned("listTags") /\ ~named /\ TagsSorted) =>
           /\ Count("createRef") = 1
           /\ CallsOf("createRef")[1].args = [ref |-> <<"refs/tags/", version>>, sha |-> contextSha]
      /\ ~Returned("listTags") => Count("createRef") = 0

\* a finished run that created the tag although the list was not empty
C1_Witness ==
  /\ pc = "done"
  /\ Len(tags) >= 2
  /\ version = "v9"
  /\ Count("createRef") = 1
  /\ CallsOf("createRef")[1].ok

\* C2: with no dated tag after the loop over tags, the run never calls
\* createRelease, uploadReleaseAsset or the webhook, cannot end well, and
\* ends with one setFailed.
C2_NoDatedTagNoRelease ==
  (TagsSorted /\ DatedIdx = {}) =>
    /\ Count("createRelease") = 0
    /\ Count("uploadReleaseAsset") = 0
    /\ Count("POST") = 0
    /\ pc \in {"checkTags", "failed"}
    /\ pc = "failed" => Count("setFailed") = 1

\* a run over undated tags only, stopped by the check on the sorted tags
C2_Witness ==
  /\ pc = "failed"
  /\ Len(tags) >= 2
  /\ DatedIdx = {}
  /\ Returned("createRef")
  /\ CallsOf("setFailed") = <<setFailed(<<"No valid tags with commit information found.">>)>>

\* every createRelease of the log carries the changelog as its body
BodyIsChangeLog ==
  \A k \in 1..Len(calls) : calls[k].op = "createRelease" => calls[k].args.body = changeLog

\* C3: with two or more dated tags the changelog handed to createRelease is
\* made of the lines of the pull requests whose merged_at is set and
\* strictly later than the committer date of the second-to-last tag's
\* resolved commit, if there is one; otherwise it is made of the lines of
\* the commits compareCommits returned for base = that resolved commit and
\* head = the latest tag's commit.
C3_PullsElseCompare ==
  /\ BodyIsChangeLog
  /\ (pc = "createRelease" /\ Cardinality(DatedIdx) >= 2) =>
       LET qualifies(pr) == pr.merged_at # 0 /\ pr.merged_at > secondToLastTagDate
           merged == SelectSeq(pulls, qualifies)
       IN  /\ Returned("pulls.list")
           /\ secondToLastTagSha \in
                {sortedTags[2].commit.sha, TagObjectTarget(sortedTags[2].commit.sha)}
           /\ secondToLastTagDate = CommitDate(secondToLastTagSha)
           /\ IF merged # <<>>
              THEN /\ changeLog = join(SeqMap(prLine, merged))
                   /\ Count("compareCommits") = 0
              ELSE /\ Count("compareCommits") = 1
                   /\ CallsOf("compareCommits")[1].args =
                        [base |-> secondToLastTagSha, head |-> sortedTags[1].commit.sha]
                   /\ changeLog = join(SeqMap(commitLine, commits))

\* a pull request merged exactly at the date of the tag and one never
\* merged: the changelog is made of the commits
C3_Witness ==
  /\ pc = "createRelease"
  /\ Cardinality(DatedIdx) >= 2
  /\ Len(pulls) = 2
  /\ \E k \in 1..2 : pulls[k].merged_at = secondToLastTagDate
  /\ \E k \in 1..2 : pulls[k].merged_at = 0
  /\ Len(commits) = 2
  /\ changeLog = join(SeqMap(commitLine, commits))

\* C4: with exactly one dated tag the changelog is made of the commits
\* listCommits returned for that tag's commit sha; pulls.list, git.getTag,
\* repos.getCommit and compareCommits are never called; a run that ends
\* well has created the release, with that changelog as its body.
C4_SingleTagListsCommits ==
  (TagsSorted /\ Cardinality(DatedIdx) = 1) =>
    LET only == tagsWithCommits[CHOOSE k \in DatedIdx : TRUE]
    IN  /\ Count("pulls.list") = 0
        /\ Count("git.getTag") = 0
        /\ Count("repos.getCommit") = 0
        /\ Count("compareCommits") = 0
        /\ pc = "createRelease" =>
             /\ CallsOf("listCommits") = <<Call("listCommits", [sha |-> only.commit.sha], TRUE)>>
             /\ changeLog = join(SeqMap(commitLine, commits))
        /\ BodyIsChangeLog
        /\ pc = "done" => Returned("createRelease")

\* a finished run over one dated tag among undated ones, with its release
C4_Witness ==
  /\ pc = "done"
  /\ Len(tags) = 3
  /\ Cardinality(DatedIdx) = 1
  /\ Returned("listCommits")
  /\ Returned("createRelease")
  /\ changeLog # <<>>

\* the date a tag carries: its committer date, else its author date
DateOf(tag) == IF tag.commit.committer # 0 THEN tag.commit.committer ELSE tag.commit.author

\* the orders listTags could have returned the tags in
Reorderings(s) == {[k \in 1..Len(s) |-> s[f[k]]] : f \in Permutations(1..Len(s))}

\* position in tagsWithCommits of a sorted tag
PositionOf(tag) == CHOOSE k \in 1..Len(tagsWithCommits) : tagsWithCommits[k].name = tag.name

\* C5 as stated: with two or more dated tags, sortedTags[0] carries the
\* largest date and sortedTags[1] the second largest, and the two tags are
\* the same whatever the order of the tag list.
C5_Original ==
  (pc = "getTag") =>
    /\ \A k \in DatedIdx : DateOf(tagsWithCommits[k]) <= sortedTags[1].tagDate
    /\ \A k \in DatedIdx \ {PositionOf(sortedTags[1])} :
         DateOf(tagsWithCommits[k]) <= sortedTags[2].tagDate
    /\ \A other \in Reorderings(tagsWithCommits) :
         /\ sortTags(other)[1] = sortedTags[1]
         /\ sortTags(other)[2] = sortedTags[2]

\* C5, amended: with two or more dated tags, sortedTags[0] carries the
\* largest date and sortedTags[1] the largest date of the other dated tags;
\* these two dates are the same whatever the order of the tag list, and so
\* are the two tags when no other dated tag carries either date; of tags
\* with the same date, the one listed first is ranked first.
C5_SecondToLastByDate ==
  (pc = "getTag") =>
    LET first == sortedTags[1]
        second == sortedTags[2]
        single ==
          \A k \in DatedIdx :
            /\ DateOf(tagsWithCommits[k]) = first.tagDate => tagsWithCommits[k].name = first.name
            /\ DateOf(tagsWithCommits[k]) = second.tagDate => tagsWithCommits[k].name = second.name
    IN  /\ Cardinality(DatedIdx) >= 2
        /\ Len(sortedTags) = Cardinality(DatedIdx)
        /\ first.name # second.name
        /\ \A k \in DatedIdx : DateOf(tagsWithCommits[k]) <= first.tagDate
        /\ \A k \in DatedIdx \ {PositionOf(first)} : DateOf(tagsWithCommits[k]) <= second.tagDate
        /\ first.tagDate = DateOf(tagsWithCommits[PositionOf(first)])
        /\ second.tagDate = DateOf(tagsWithCommits[PositionOf(second)])
        /\ \A j, k \in 1..Len(sortedTags) :
             (j < k /\ sortedTags[j].tagDate = sortedTags[k].tagDate) =>
               PositionOf(sortedTags[j]) < PositionOf(sortedTags[k])
        /\ \A other \in Reorderings(tagsWithCommits) :
             /\ sortTags(other)[1].tagDate = first.tagDate
             /\ sortTags(other)[2].tagDate = second.tagDate
             /\ single => (sortTags(other)[1] = first /\ sortTags(other)[2] = second)

\* the newest tag is listed last, the oldest first, an undated tag between
C5_Witness ==
  /\ pc = "getTag"
  /\ Len(tagsWithCommits) = 3
  /\ DatedIdx = {1, 3}
  /\ DateOf(tagsWithCommits[1]) < DateOf(tagsWithCommits[3])
  /\ sortedTags[2].name = tagsWithCommits[1].name

\* The paths the files input names, stated on its characters: the input is
\* cut at every comma and newline, and each piece that holds a character
\* other than white space gives the path from its first such character to
\* its last, in the order of the pieces.
Cuts(s) == {0, Len(s) + 1} \cup {k \in 1..Len(s) : s[k] \in {",", "\n"}}
Pieces(s) ==
  {c \in Cuts(s) \X Cuts(s) : c[1] < c[2] /\ ~\E b \in Cuts(s) : c[1] < b /\ b < c[2]}
Inked(s, c) == {k \in (c[1] + 1)..(c[2] - 1) : s[k] \notin WhiteSpace}
NamedPieces(s) == {c \in Pieces(s) : Inked(s, c) # {}}
PathOf(s, c) ==
  LET lo == CHOOSE k \in Inked(s, c) : \A j \in Inked(s, c) : k <= j
      hi == CHOOSE k \in Inked(s, c) : \A j \in Inked(s, c) : k >= j
  IN  SubSeq(s, lo, hi)
PathsNamedBy(s) ==
  [k \in 1..Cardinality(NamedPieces(s)) |->
     PathOf(s, CHOOSE c \in NamedPieces(s) :
                 Cardinality({d \in NamedPieces(s) : d[1] < c[1]}) = k - 1)]
PathsTable == [s \in FilesInputs |-> PathsNamedBy(s)]
ExpectedPaths == PathsTable[filesInput]

\* the uploads and warnings of the log, in order
AttachLog == SelectSeq(calls, LAMBDA c : c.op \in {"uploadReleaseAsset", "warning"})

\* log is what the paths leave behind, one after the other: a missing path
\* one warning; a path that cannot be read one warning; any other path one
\* upload to this run's release, followed by one warning if it threw
RECURSIVE Attached(_, _)
Attached(paths, log) ==
  IF paths = <<>> THEN log = <<>>
  ELSE LET path == Head(paths)
           missing == warning(<<path, " not found, skipping attachment">>)
           failed == warning(<<"Could not attach ", path, " to release">>)
       IN  /\ log # <<>>
           /\ IF path \notin FsFiles \cup FsDirs
                THEN log[1] = missing /\ Attached(Tail(paths), Tail(log))
              ELSE IF path \in FsDirs
                THEN log[1] = failed /\ Attached(Tail(paths), Tail(log))
              ELSE /\ log[1].op = "uploadReleaseAsset"
                   /\ log[1].args.release_id = release
                   /\ log[1].args.data = path
                   /\ IF log[1].ok THEN Attached(Tail(paths), Tail(log))
                      ELSE /\ Len(log) >= 2
                           /\ log[2] = failed
                           /\ Attached(Tail(paths), Tail(Tail(log)))

\* C6 as stated: once the release is created, the paths of the files input
\* are gone through once each, in order, and leave in the log exactly: one
\* warning for a missing path, one upload to the release of this run for a
\* path that can be read, one warning for a failed read or upload; the loop
\* goes to the end whatever happens and never leads to setFailed: a run
\* that fails after the release fails in the notification.
C6_Original ==
  LET n == Len(ExpectedPaths)
      done == n - Len(files)
  IN  /\ release = 0 => AttachLog = <<>>
      /\ release # 0 =>
           /\ [id |-> release, tag_name |-> version] \in repoReleases
           /\ Len(files) <= n
           /\ files = SubSeq(ExpectedPaths, done + 1, n)
           /\ Attached(SubSeq(ExpectedPaths, 1, done), AttachLog)
           /\ pc \in {"attach", "notify", "done"} => Count("setFailed") = 0
           /\ pc \in {"notify", "done", "failed", "unsettled"} => files = <<>>
           /\ pc = "failed" =>
                /\ webhookUrl # ""
                /\ CallsOf("setFailed")[1].args \in {<<"error in ", "new URL">>, <<"error in ", "POST">>}

\* C7 as stated: without a webhook URL no POST is made; with one, a run
\* that ends well has made exactly one POST, which carries the name, the
\* version and the changelog.
C7_Original ==
  /\ webhookUrl = "" => Count("POST") = 0
  /\ Count("POST") <= 1
  /\ (pc = "done" /\ webhookUrl # "") => Count("POST") = 1
  /\ \A k \in 1..Len(calls) :
       calls[k].op = "POST" =>
         /\ calls[k].args.body.title = <<"New release: ", name, " ", version>>
         /\ calls[k].args.body.text = changeLog

\* C7, amended: without a webhook URL no POST is made; with one, a run
\* that is through with the notification has issued exactly one POST if
\* new URL() accepts the URL and none if it does not, whether the POST
\* returned, threw or never settled; a run that ends well has a POST that
\* returned.  The title and summary of the card carry the name and the
\* version, and its text is the changelog or, when the changelog is empty,
\* "No changelog available."
C7_OnePostWithChangelogOrPlaceholder ==
  /\ webhookUrl = "" => Count("POST") = 0
  /\ Count("POST") <= 1
  /\ (webhookUrl # "" /\ release # 0 /\ pc \in {"done", "failed", "unsettled"}) =>
       Count("POST") = IF webhookUrl = "not a url" THEN 0 ELSE 1
  /\ (pc = "done" /\ webhookUrl # "") => Returned("POST")
  /\ pc = "unsettled" => (Count("POST") = 1 /\ ~calls[Len(calls)].settled)
  /\ \A k \in 1..Len(calls) :
       calls[k].op = "POST" =>
         /\ calls[k].args.method = "POST"
         /\ calls[k].args.hostname = "teams.example"
         /\ calls[k].args.body.title = <<"New release: ", name, " ", version>>
         /\ calls[k].args.body.summary = <<"New release: ", name, " ", version>>
         /\ calls[k].args.body.text =
              IF changeLog = <<>> THEN <<"No changelog available.">> ELSE changeLog

\* a run that ends well after posting the card of an empty changelog
C7_Witness ==
  /\ pc = "done"
  /\ webhookUrl # ""
  /\ changeLog = <<>>
  /\ Returned("createRelease")
  /\ Count("POST") = 1
  /\ CallsOf("POST")[1].args.body.text = <<"No changelog available.">>

\* C8: in a later run of the job with the same version, when the tag list
\* holds the version (as it does once an earlier run has created the tag),
\* createRef is not called; the run calls createRelease all the same, with
\* tag_name = version, and has done so when it ends well.
C8_RerunCreatesNoTagButRelease ==
  runNo >= 2 =>
    LET named == \E k \in 1..Len(tags) : tags[k].name = version
    IN  /\ (Returned("listTags") /\ named) => Count("createRef") = 0
        /\ \A k \in 1..Len(calls) :
             calls[k].op = "createRelease" => calls[k].args.tag_name = version
        /\ (pc = "done" /\ named) =>
             /\ Count("createRelease") = 1
             /\ Returned("createRelease")

\* a second run that finds the tag the first run created, creates no tag
\* and creates a second release for the version
C8_Witness ==
  /\ runNo = 2
  /\ pc = "done"
  /\ version = "v9"
  /\ \E k \in 1..Len(tags) : tags[k] = createdTag("v9", contextSha)
  /\ Count("createRef") = 0
  /\ Returned("createRelease")
  /\ repoReleases = {[id |-> 1, tag_name |-> "v9"], [id |-> 2, tag_name |-> "v9"]}

\* C9: a run calls createRelease at most once, with tag_name = version, the
\* changelog of this run as body, draft and prerelease false; the release
\* made is the one the repository holds for this run.
C9_OneReleasePerRun ==
  /\ Count("createRelease") <= 1
  /\ \A k \in 1..Len(calls) :
       calls[k].op = "createRelease" =>
         /\ calls[k].args.tag_name = version
         /\ calls[k].args.body = changeLog
         /\ calls[k].args.draft = FALSE
         /\ calls[k].args.prerelease = FALSE
  /\ Returned("createRelease") <=> release # 0
  /\ release # 0 => [id |-> release, tag_name |-> version] \in repoReleases
  /\ Cardinality(repoReleases) = IF release # 0 THEN 1 ELSE 0

\* a finished run whose release carries the lines of two pull requests
C9_Witness ==
  /\ pc = "done"
  /\ Returned("createRelease")
  /\ Len(pulls) = 0
  /\ \E a, b \in PullUniverse :
       /\ a # b
       /\ CallsOf("createRelease")[1].args.body = join(<<prLine(a), prLine(b)>>)

\* the step of the run an effect belongs to
Phase(op) ==
  CASE op \in {"listTags", "git.getCommit"} -> 1
    [] op = "createRef" -> 2
    [] op \in {"git.getTag", "repos.getCommit", "pulls.list", "compareCommits", "listCommits"} -> 3
    [] op = "createRelease" -> 4
    [] op \in {"uploadReleaseAsset", "warning"} -> 5
    [] op = "POST" -> 6
    [] op = "setFailed" -> 7

\* the calls whose failure run() catches where they are made
LocallyCaught == {"git.getCommit", "git.getTag", "uploadReleaseAsset"}

\* C10 as stated: the effects of a run come in the order ResolveTags,
\* CreateTag, BuildChangelog, CreateRelease, AttachAssets, Notify: uploads,
\* warnings and the POST come after a createRelease that returned,
\* createRelease after a changelog call that returned.  A call that fails
\* outside the local catches is followed by setFailed and by nothing else:
\* it is not made again, the run is marked failed, and what the run created
\* (the release, the tag) is still in the repository.
C10_Original ==
  /\ \A k \in 1..(Len(calls) - 1) : Phase(calls[k].op) <= Phase(calls[k + 1].op)
  /\ \A k \in 1..Len(calls) :
       calls[k].op \in {"uploadReleaseAsset", "warning", "POST"} =>
         \E j \in 1..(k - 1) : calls[j].op = "createRelease" /\ calls[j].ok
  /\ \A k \in 1..Len(calls) :
       calls[k].op = "createRelease" =>
         \E j \in 1..(k - 1) :
           calls[j].op \in {"pulls.list", "compareCommits", "listCommits"} /\ calls[j].ok
  /\ \A k \in 1..Len(calls) :
       (~calls[k].ok /\ calls[k].op \notin LocallyCaught) =>
         /\ k = Len(calls) - 1
         /\ calls[Len(calls)] = setFailed(<<"error in ", calls[k].op>>)
         /\ pc = "failed"
  /\ \A k \in 1..Len(calls) : calls[k].op = "setFailed" => k = Len(calls)
  /\ Count("setFailed") = IF pc = "failed" THEN 1 ELSE 0
  /\ \A k \in 1..Len(calls) :
       \A j \in 1..(k - 1) :
         calls[j].op = calls[k].op =>
           /\ calls[j].op \in {"git.getCommit", "uploadReleaseAsset", "warning"}
           /\ calls[j].args # calls[k].args
  /\ Returned("createRelease") => [id |-> release, tag_name |-> version] \in repoReleases
  /\ Returned("createRef") =>
       \E k \in 1..Len(repoTags) : repoTags[k] = createdTag(version, contextSha)

\* the calls C11 names as fatal, git.getTag set aside
FatalCalls ==
  {"listTags", "createRef", "repos.getCommit", "pulls.list", "compareCommits",
   "listCommits", "createRelease", "POST"}

\* the calls of the log that failed: they threw, or never settled
FailedIdx == {k \in 1..Len(calls) : ~calls[k].ok}

\* the calls of the log that threw
ThrownIdx == {k \in FailedIdx : calls[k].settled}

\* The policy on the failures of a run: every one is fatal or recovered; a
\* fatal one is made once, is followed by setFailed with its error message
\* and by nothing else, and the run is over; a recovered one is never
\* reported by setFailed and the run goes on after it.
ErrorPolicy(failures, fatal, recovered) ==
  /\ \A k \in failures : calls[k].op \in fatal \cup recovered
  /\ \A k \in failures :
       calls[k].op \in fatal =>
         /\ k = Len(calls) - 1
         /\ calls[Len(calls)] = setFailed(<<"error in ", calls[k].op>>)
         /\ Count("setFailed") = 1
         /\ Count(calls[k].op) = 1
         /\ pc = "failed"
  /\ \A k \in failures :
       calls[k].op \in recovered =>
         /\ \A j \in 1..Len(calls) : calls[j] # setFailed(<<"error in ", calls[k].op>>)
         /\ k = Len(calls) => pc \notin {"failed", "done", "unsettled"}

\* C11 as stated: asset attachment and the fetch of a tag's commit are
\* recovered; a failure of listTags, createRef, getTag, repos.getCommit,
\* pulls.list, compareCommits, listCommits, createRelease or of the POST is
\* fatal.
C11_Original ==
  ErrorPolicy(FailedIdx, FatalCalls \cup {"git.getTag"}, {"git.getCommit", "uploadReleaseAsset"})

\* C11, amended: git.getTag is recovered too.  A failure of git.getCommit
\* drops the tag and the loop goes on, a failure of git.getTag leaves the
\* commit sha of the second-to-last tag as the resolved sha, a failure of
\* uploadReleaseAsset is followed by a warning.  When listTags, createRef,
\* repos.getCommit, pulls.list, compareCommits, listCommits, createRelease
\* or the POST throws, one setFailed with the error message follows and no
\* other call, and the call is not made again.  The one failure that is
\* neither recovered nor reported is a POST that never settles: it is the
\* last effect of the run, with no setFailed and no retry.
C11_OnlyLocalCatchesRecover ==
  /\ ErrorPolicy(ThrownIdx, FatalCalls, {"git.getCommit", "git.getTag", "uploadReleaseAsset"})
  /\ \A k \in FailedIdx \ ThrownIdx :
       /\ calls[k].op = "POST"
       /\ k = Len(calls)
       /\ Count("POST") = 1
       /\ Count("setFailed") = 0
       /\ pc = "unsettled"
  /\ pc = "unsettled" => Len(calls) \in FailedIdx \ ThrownIdx
  /\ pc = "failed" <=> Count("setFailed") = 1
  /\ Len(tagsWithCommits) =
       (tagIdx - 1) - Cardinality({k \in FailedIdx : calls[k].op = "git.getCommit"})
  /\ \A k \in FailedIdx :
       /\ calls[k].op = "git.getTag" => secondToLastTagSha = sortedTags[2].commit.sha
       /\ calls[k].op = "uploadReleaseAsset" =>
            /\ k < Len(calls)
            /\ calls[k + 1].op = "warning"

\* a run that went on after git.getCommit, git.getTag and an upload threw,
\* and ended in the catch of run() when the POST threw
C11_Witness ==
  /\ pc = "failed"
  /\ \E k \in FailedIdx : calls[k].op = "git.getCommit"
  /\ \E k \in FailedIdx : calls[k].op = "git.getTag"
  /\ \E k \in FailedIdx : calls[k].op = "uploadReleaseAsset"
  /\ Returned("createRelease")
  /\ calls[Len(calls) - 1].op = "POST"
  /\ ~calls[Len(calls) - 1].ok
  /\ calls[Len(calls)] = setFailed(<<"error in ", "POST">>)

\* the changelog about to be released is made of pull requests
PRBased == pc = "createRelease" /\ Returned("pulls.list") /\ Count("compareCommits") = 0

\* the pull requests of the list that qualify, in the order of the list
Qualifying ==
  SelectSeq(pulls, LAMBDA pr : pr.merged_at # 0 /\ pr.merged_at > secondToLastTagDate)

\* the lines of the changelog
ChangeLogLines == split(changeLog, {"\n"})

\* the pull request a line renders
PROfLine(line) == CHOOSE pr \in PullUniverse : prLine(pr) = line

\* every line renders a qualifying pull request, every qualifying pull
\* request has exactly one line
OneLinePerPR ==
  /\ Len(ChangeLogLines) = Len(Qualifying)
  /\ \A k \in 1..Len(ChangeLogLines) :
       \E j \in 1..Len(Qualifying) : ChangeLogLines[k] = prLine(Qualifying[j])
  /\ \A j \in 1..Len(Qualifying) :
       Cardinality({k \in 1..Len(ChangeLogLines) : ChangeLogLines[k] = prLine(Qualifying[j])}) = 1

\* C12 as stated: a changelog made of pull requests has one line per
\* qualifying pull request, and of two lines the earlier one renders a pull
\* request merged no earlier than that of the later one.
C12_Original ==
  PRBased =>
    /\ OneLinePerPR
    /\ \A j, k \in 1..Len(ChangeLogLines) :
         j < k => PROfLine(ChangeLogLines[j]).merged_at >= PROfLine(ChangeLogLines[k]).merged_at

\* C12, amended: a changelog made of pull requests has one line per
\* qualifying pull request, and the lines come in the order in which
\* pulls.list returned the pull requests: line k renders the k-th
\* qualifying pull request of the list, whatever their merge times.
C12_OneLinePerPRInListOrder ==
  PRBased =>
    /\ Qualifying # <<>>
    /\ OneLinePerPR
    /\ \A k \in 1..Len(ChangeLogLines) : ChangeLogLines[k] = prLine(Qualifying[k])

\* pulls.list returned the older of two qualifying pull requests first, and
\* the changelog has its line first
C12_Witness ==
  /\ PRBased
  /\ Len(Qualifying) = 2
  /\ Qualifying[1].merged_at < Qualifying[2].merged_at
  /\ ChangeLogLines = <<prLine(Qualifying[1]), prLine(Qualifying[2])>>

\* the two failures of the checks on the sorted tags
ValidityFailures ==
  { setFailed(<<"No valid tags with commit information found.">>),
    setFailed(<<"Latest tag does not have a commit SHA.">>) }

\* C13: the checks on the sorted tags come after the tag step: when the run
\* is at the checks, or has ended in one of their two failures, and no tag
\* of the fetched list is named as the version, createRef has been called
\* once and has returned, before the setFailed of the check; the run that
\* ended so has made no release, and the repository holds the fetched tags
\* followed by the new tag, with no release for the version.
C13_TagCreatedBeforeValidityChecks ==
  LET named == \E k \in 1..Len(tags) : tags[k].name = version
      stopped == calls # <<>> /\ calls[Len(calls)] \in ValidityFailures
  IN  /\ (pc = "checkTags" \/ stopped) =>
           /\ Returned("listTags")
           /\ ~named =>
                /\ CallsOf("createRef") =
                     <<Call("createRef", [ref |-> <<"refs/tags/", version>>, sha |-> contextSha], TRUE)>>
                /\ repoTags = tags \o <<createdTag(version, contextSha)>>
           /\ named => Count("createRef") = 0
      /\ stopped =>
           /\ pc = "failed"
           /\ Count("setFailed") = 1
           /\ Count("createRelease") = 0
           /\ \A r \in repoReleases : r.tag_name # version

\* a run over two tags, the newest of which has no commit sha, that created
\* the tag and then stopped at the check: a tag without a release
C13_Witness ==
  /\ pc = "failed"
  /\ Len(tags) = 2
  /\ calls[Len(calls)] = setFailed(<<"Latest tag does not have a commit SHA.">>)
  /\ Returned("createRef")
  /\ repoTags[Len(repoTags)] = createdTag(version, contextSha)
  /\ repoReleases = {}

\* C14: in a run that created the version tag, listTags is called once,
\* before createRef, and the list it returned does not hold the version
\* although the repository now does; the sorted tags are the dated tags of
\* that list, newest first, none of them the version.  The bounds of the
\* changelog come from them: compareCommits is called with head = the commit
\* of the newest of these tags and base = the resolved commit of the second
\* newest, listCommits with sha = the commit of the newest, the date
\* pull requests are compared with is the date of the resolved commit of
\* the second newest; and createRelease is called with tag_name = version.
C14_BoundsFromTagsFetchedAtStart ==
  Returned("createRef") =>
    /\ Count("listTags") = 1
    /\ calls[1].op = "listTags"
    /\ \A k \in 1..Len(tags) : tags[k].name # version
    /\ \E k \in 1..Len(repoTags) : repoTags[k].name = version
    /\ Len(sortedTags) = Cardinality(DatedIdx)
    /\ \A k \in 1..Len(sortedTags) :
         /\ sortedTags[k].name # version
         /\ \E j \in 1..Len(tags) : tags[j].name = sortedTags[k].name
         /\ sortedTags[k].tagDate <= sortedTags[1].tagDate
         /\ k >= 2 => sortedTags[k].tagDate <= sortedTags[2].tagDate
    /\ Returned("repos.getCommit") =>
         /\ secondToLastTagSha \in
              {sortedTags[2].commit.sha, TagObjectTarget(sortedTags[2].commit.sha)}
         /\ secondToLastTagDate = CommitDate(secondToLastTagSha)
    /\ \A k \in 1..Len(calls) :
         /\ calls[k].op = "compareCommits" =>
              /\ calls[k].args.head = sortedTags[1].commit.sha
              /\ calls[k].args.base = secondToLastTagSha
              /\ Returned("repos.getCommit")
         /\ calls[k].op = "listCommits" =>
              /\ calls[k].args.sha = sortedTags[1].commit.sha
              /\ Len(sortedTags) = 1
         /\ calls[k].op = "pulls.list" => Returned("repos.getCommit")
         /\ calls[k].op = "createRelease" => calls[k].args.tag_name = version
    /\ PRBased => Qualifying = mergedPRs(pulls, CommitDate(secondToLastTagSha))

\* a finished run that created the tag v9 and released it with the commits
\* between the two newest of three older tags
C14_Witness ==
  /\ pc = "done"
  /\ version = "v9"
  /\ Returned("createRef")
  /\ Len(sortedTags) = 3
  /\ Returned("compareCommits")
  /\ CallsOf("compareCommits")[1].args.head = sortedTags[1].commit.sha
  /\ CallsOf("compareCommits")[1].args.head # contextSha
  /\ changeLog # <<>>
  /\ repoReleases = {[id |-> 1, tag_name |-> "v9"]}
  /\ repoTags[Len(repoTags)].name = "v9"

====
